---- MODULE Spec2Model ----
(***************************************************************************)
(* A model of gelbooru_deep_search.py: BooruConfig validation, the command *)
(* line's configuration resolution, the partitioner                        *)
(* (GelbooruDeepSearch.get_deep_search_steps_async) and the Boundary       *)
(* Finder (_find_last_id_linear_async / _find_last_id_binary_async).       *)
(*                                                                         *)
(* Strings are sequences of one-character strings, so that splitting,      *)
(* lower-casing, formatting "id:>N" and reading it back are computed.      *)
(* An Optional value (Python None or a value) is <<>> or <<v>>.            *)
(* Every await of the search client is one step of the model.              *)
(***************************************************************************)
EXTENDS Integers, Sequences, FiniteSets, TLC

(***************************************************************************)
(* Bounds of the model.                                                    *)
(***************************************************************************)
MaxId == 6
MaxPerPage == 2
MaxPerSearch == 5
MaxRuns == 2

(***************************************************************************)
(* Optional values and Python truthiness.                                  *)
(***************************************************************************)
None == <<>>
Some(v) == <<v>>
\* `not x` is False for a number exactly when x is neither None nor 0
Truthy(opt) == opt # None /\ opt[1] # 0
\* `not s` for an Optional string
TruthyStr(opt) == opt # None /\ opt[1] # ""

Min2(a, b) == IF a <= b THEN a ELSE b

(***************************************************************************)
(* Text.                                                                   *)
(***************************************************************************)
UpperCase == <<"A","B","C","D","E","F","G","H","I","J","K","L","M",
               "N","O","P","Q","R","S","T","U","V","W","X","Y","Z">>
LowerCase == <<"a","b","c","d","e","f","g","h","i","j","k","l","m",
               "n","o","p","q","r","s","t","u","v","w","x","y","z">>
DigitChars == <<"0","1","2","3","4","5","6","7","8","9">>
Whitespace == {" ", "\t", "\n"}

LowerChar(c) ==
    IF \E i \in 1..26 : UpperCase[i] = c
    THEN LowerCase[CHOOSE i \in 1..26 : UpperCase[i] = c]
    ELSE c

\* a tag left as typed
lower_missing(s) == s
\* str.lower()
lower(s) == [i \in 1..Len(s) |-> LowerChar(s[i])]

\* str.split(): the maximal runs of non-whitespace characters
RECURSIVE SplitFrom(_, _, _)
SplitFrom(s, i, cur) ==
    IF i > Len(s)
    THEN IF cur = <<>> THEN <<>> ELSE <<cur>>
    ELSE IF s[i] \in Whitespace
         THEN (IF cur = <<>> THEN <<>> ELSE <<cur>>) \o SplitFrom(s, i + 1, <<>>)
         ELSE SplitFrom(s, i + 1, Append(cur, s[i]))
split(s) == SplitFrom(s, 1, <<>>)

\* [tag for sublist in tags for tag in sublist.split()]
RECURSIVE SplitAll(_)
SplitAll(list) ==
    IF list = <<>> THEN <<>> ELSE split(Head(list)) \o SplitAll(Tail(list))

\* str(n) for n >= 0
RECURSIVE FormatInt(_)
FormatInt(n) ==
    IF n < 10 THEN <<DigitChars[n + 1]>>
    ELSE Append(FormatInt(n \div 10), DigitChars[(n % 10) + 1])

IsDigit(c) == \E d \in 1..10 : DigitChars[d] = c
DigitValue(c) == (CHOOSE d \in 1..10 : DigitChars[d] = c) - 1
RECURSIVE ParseInt(_)
ParseInt(s) ==
    IF s = <<>> THEN 0
    ELSE ParseInt(SubSeq(s, 1, Len(s) - 1)) * 10 + DigitValue(s[Len(s)])

Elems(seq) == {seq[i] : i \in 1..Len(seq)}

SortIdAsc == <<"s","o","r","t",":","i","d",":","a","s","c">>
SortIdDesc == <<"s","o","r","t",":","i","d",":","d","e","s","c">>
IdGreater == <<"i","d",":",">">>
IdGreaterEq == <<"i","d",":",">","=">>

(***************************************************************************)
(* BooruConfig.                                                            *)
(***************************************************************************)
\* urlparse(url): all([result.scheme, result.netloc])
is_url(api) == api.scheme # "" /\ api.netloc # ""

\* __attrs_post_init__: "ok", or the message of the error it raises.
\* The limits arrive as Optional integers, the credentials as Optional
\* strings (argparse gives int or None, str or None).
BooruConfigCheck(api, max_posts_per_search, max_posts_per_page, api_key, user_id) ==
    IF api.text = "" THEN "ValueError: api should be provided"
    ELSE IF ~is_url(api) THEN "ValueError: api should be a valid URL"
    ELSE IF ~Truthy(max_posts_per_search)
        THEN "ValueError: max_posts_per_search should be provided"
    ELSE IF max_posts_per_search[1] <= 0
        THEN "ValueError: max_posts_per_search should be greater than 0"
    ELSE IF ~Truthy(max_posts_per_page)
        THEN "ValueError: max_posts_per_page should be provided"
    ELSE IF max_posts_per_page[1] <= 0
        THEN "ValueError: max_posts_per_page should be greater than 0"
    ELSE IF max_posts_per_page[1] > max_posts_per_search[1]
        THEN "ValueError: max_posts_per_page cannot be bigger than max_posts_per_search"
    ELSE IF TruthyStr(api_key) /\ ~TruthyStr(user_id)
        THEN "ValueError: When specifying api_key, user_id should also be specified"
    ELSE IF ~TruthyStr(api_key) /\ TruthyStr(user_id)
        THEN "ValueError: When specifying user_id, api_key should also be specified"
    ELSE "ok"

BooruConfig(api, max_posts_per_search, max_posts_per_page, api_key, user_id) ==
    [api |-> api,
     max_posts_per_search |-> max_posts_per_search[1],
     max_posts_per_page |-> max_posts_per_page[1],
     api_key |-> api_key,
     user_id |-> user_id]

max_pages(config) == config.max_posts_per_search \div config.max_posts_per_page

API_GELBOORU == [text |-> "https://gelbooru.com/", scheme |-> "https", netloc |-> "gelbooru.com"]
API_SAFEBOORU == [text |-> "https://safebooru.org/", scheme |-> "https", netloc |-> "safebooru.org"]
API_RULE34 == [text |-> "https://rule34.xxx/", scheme |-> "https", netloc |-> "rule34.xxx"]
API_CUSTOM == [text |-> "https://booru.example/", scheme |-> "https", netloc |-> "booru.example"]

KnownLabels == {"gelbooru", "safebooru", "rule34"}
KNOWN_API(label) ==
    CASE label = "gelbooru" -> BooruConfig(API_GELBOORU, Some(20000), Some(100), None, None)
      [] label = "safebooru" -> BooruConfig(API_SAFEBOORU, Some(200000), Some(1000), None, None)
      [] label = "rule34" -> BooruConfig(API_RULE34, Some(200000), Some(1000), None, None)

NoConfig == [api |-> [text |-> "", scheme |-> "", netloc |-> ""],
             max_posts_per_search |-> 0, max_posts_per_page |-> 0,
             api_key |-> None, user_id |-> None]

(***************************************************************************)
(* State.                                                                  *)
(***************************************************************************)
VARIABLES
    args,                   \* the parsed command line (main)
    booru_config,           \* GelbooruDeepSearch._booru_config
    posts,                  \* the server's result set for the query: matching IDs, ascending
    pc,                     \* where the program is suspended
    caller,                 \* who awaits the Boundary Finder: "steps" or "direct"
    tags,                   \* get_deep_search_steps_async: tags, split and lowered
    first_id, last_id,      \* Optional IDs from the two bootstrap probes
    steps, step_start,      \* the window list being built and the current window start
    min_id,                 \* _find_last_id_linear_async: its min_id
    reversed_and_min_tags,  \* the query of the Boundary Finder's probes
    left, right, last_full_page,    \* _find_last_id_binary_async
    request_counter,        \* the instance's request count
    request_time,           \* the elapsed intervals summed into _request_time since its reset
    outcome,                \* how the last finished call ended
    runs,                   \* calls started so far
    calls,                  \* the requests the search client got during the current call
    input,                  \* the tags argument of the current call
    prev                    \* outcome and request_counter at the end of the call before,
                            \* kept when that call had the same tags argument

vars == <<args, booru_config, posts, pc, caller, tags, first_id, last_id, steps,
          step_start, min_id, reversed_and_min_tags, left, right, last_full_page,
          request_counter, request_time, outcome, runs, calls, input, prev>>

(***************************************************************************)
(* The search client (pygelbooru's Gelbooru.search_posts) against a static *)
(* result set: the matching IDs filtered by the query's id:>N token,       *)
(* ascending when the query holds sort:id:asc and descending (the server's *)
(* default order) otherwise, cut to offsets [page*limit, (page+1)*limit).  *)
(***************************************************************************)
HasPrefix(s, p) == Len(s) >= Len(p) /\ SubSeq(s, 1, Len(p)) = p
\* t is the filter token `op` followed by a number
IsIdTag(t, op) ==
    /\ HasPrefix(t, op)
    /\ Len(t) > Len(op)
    /\ \A i \in (Len(op) + 1)..Len(t) : IsDigit(t[i])
IdOf(t, op) == ParseInt(SubSeq(t, Len(op) + 1, Len(t)))

Reverse(s) == [i \in 1..Len(s) |-> s[Len(s) + 1 - i]]

\* the server's filters id:>n and id:>=n
Matching(query) ==
    LET gt == {i \in 1..Len(query) : IsIdTag(query[i], IdGreater)}
        ge == {i \in 1..Len(query) : IsIdTag(query[i], IdGreaterEq)}
        overGt == IF gt = {} THEN posts
                  ELSE LET n == IdOf(query[CHOOSE i \in gt : TRUE], IdGreater)
                       IN  SelectSeq(posts, LAMBDA id : id > n)
    IN  IF ge = {} THEN overGt
        ELSE LET n == IdOf(query[CHOOSE i \in ge : TRUE], IdGreaterEq)
             IN  SelectSeq(overGt, LAMBDA id : id >= n)

search_posts(query, limit, page) ==
    LET m == Matching(query)
        ordered == IF SortIdAsc \in Elems(query) THEN m ELSE Reverse(m)
        from == page * limit + 1
        to == Min2((page + 1) * limit, Len(ordered))
    IN  IF from > to THEN <<>> ELSE SubSeq(ordered, from, to)

(***************************************************************************)
(* Static tag helpers of GelbooruDeepSearch.                               *)
(***************************************************************************)
add_reverse_tag(t) == Append(t, SortIdAsc)
\* the filter written id:>=N
add_min_tag_inclusive(t, n) == Append(t, IdGreaterEq \o FormatInt(n))
add_min_tag(t, n) == Append(t, IdGreater \o FormatInt(n))
add_reverse_and_min_tag(t, n) == add_min_tag(add_reverse_tag(t), n)

\* _gelbooru_search_wrapped: `if not limit` and `if not page` defaults
WrappedLimit(limit) == IF Truthy(limit) THEN limit[1] ELSE booru_config.max_posts_per_page
WrappedPage(page) == IF Truthy(page) THEN page[1] ELSE 0

\* the request _gelbooru_search_wrapped sends for (tags, limit, page)
Request(query, limit, page) ==
    [tags |-> query, limit |-> WrappedLimit(limit), page |-> WrappedPage(page)]
Response(query, limit, page) ==
    search_posts(query, WrappedLimit(limit), WrappedPage(page))

\* _get_last_id_async: post.id when the client gave a post, else None.
\* With limit 1 the client gives the single post itself, or nothing.
\* IDs are positive, as a booru's post IDs are.
\* no limit given: the wrapper's default applies
LastIdLimit_default == None
\* the limit of the two bootstrap requests
LastIdLimit == Some(1)
get_last_id(query) ==
    LET post == Response(query, LastIdLimit, None)
    IN  IF Len(post) = 1 THEN Some(post[1]) ELSE None

\* "sort:id:asc" in tags or "sort:id:desc" in tags
HasForbiddenTags(t) == SortIdAsc \in Elems(t) \/ SortIdDesc \in Elems(t)

\* lines 196-206: split every element, lower every tag
PrepareTags(in) ==
    LET flat == SplitAll(in.value)
    IN  [i \in 1..Len(flat) |-> lower(flat[i])]

(***************************************************************************)
(* Inputs.                                                                 *)
(***************************************************************************)
\* the ascending list of a finite set of IDs
RECURSIVE Ascending(_)
Ascending(S) ==
    IF S = {} THEN <<>>
    ELSE LET m == CHOOSE x \in S : \A y \in S : x <= y
         IN  <<m>> \o Ascending(S \ {m})

Range(a, b) == [i \in 1..(b - a + 1) |-> a + i - 1]

\* every BooruConfig the constructor accepts, limits within the bounds
ValidConfigs ==
    {BooruConfig(API_CUSTOM, Some(s), Some(p), None, None) :
        <<s, p>> \in {c \in (0..MaxPerSearch) \X (0..MaxPerPage) :
            BooruConfigCheck(API_CUSTOM, Some(c[1]), Some(c[2]), None, None) = "ok"}}

SmallResultSets == {Ascending(S) : S \in SUBSET (1..MaxId)}

\* the scenarios the documentation names: one post with ID 42 under the
\* gelbooru preset, IDs 1..150 under 100 per page / 200 per search, and
\* IDs 1..20000 under the gelbooru preset
NamedScenarios ==
    {<<KNOWN_API("gelbooru"), <<42>>>>,
     <<BooruConfig(API_CUSTOM, Some(200), Some(100), None, None), Range(1, 150)>>}
FinderScenarios ==
    {<<KNOWN_API("gelbooru"), Range(1, 20000)>>}

Scenarios == (ValidConfigs \X SmallResultSets) \cup NamedScenarios

S_CatDog == <<"C","a","t"," "," ","d","o","g">>
S_cat == <<"c","a","t">>
S_sortid == <<"s","o","r","t",":","i","d">>
S_catSortAsc == <<"c","a","t"," ","S","o","r","t",":","I","D",":","A","s","c">>
S_SORTDESC == <<"S","O","R","T",":","I","D",":","D","E","S","C">>
S_dogsortasc == <<"d","o","g","\t","s","o","r","t",":","i","d",":","a","s","c">>

\* the tags arguments tried: a str (kind "str", held as the one-element list
\* line 196 makes of it), a list of str, or something else; `reserved`
\* records, by inspection, whether the argument holds sort:id:asc or
\* sort:id:desc in some letter case
TagInputs ==
    {[kind |-> "str", value |-> <<S_CatDog>>, reserved |-> FALSE],
     [kind |-> "list", value |-> <<S_cat, S_sortid>>, reserved |-> FALSE],
     [kind |-> "str", value |-> <<S_catSortAsc>>, reserved |-> TRUE],
     [kind |-> "list", value |-> <<S_cat, S_SORTDESC>>, reserved |-> TRUE],
     [kind |-> "list", value |-> <<S_dogsortasc>>, reserved |-> TRUE],
     [kind |-> "str", value |-> <<SortIdDesc>>, reserved |-> TRUE],
     [kind |-> "other", value |-> <<>>, reserved |-> FALSE]}

NoInput == [kind |-> "none", value |-> <<>>, reserved |-> FALSE]

Label(text) == [text |-> text, scheme |-> "", netloc |-> ""]
OptionalLimits == {None} \cup {Some(n) : n \in (-1)..MaxPerSearch}
ArgsSet ==
    [api : {Label("gelbooru"), Label("rule34"), Label("mybooru"), Label(""), API_CUSTOM},
     max_per_search : OptionalLimits,
     max_per_page : OptionalLimits,
     user : {None, Some("1")},
     key : {None, Some("k")}]
NoArgs == [api |-> Label(""), max_per_search |-> None, max_per_page |-> None,
           user |-> None, key |-> None]

\* how a call ended; for the Boundary Finder called on its own, with its min_id
Outcome(kind, s, id, message) ==
    [kind |-> kind, steps |-> s, id |-> id, message |-> message, min_id |-> 0]
NoOutcome == Outcome("none", <<>>, None, "")
NoPrev == [outcome |-> NoOutcome, request_counter |-> 0, input |-> NoInput]

(***************************************************************************)
(* Initial states.                                                         *)
(***************************************************************************)
InitLocals ==
    /\ caller = "none"
    /\ tags = <<>>
    /\ first_id = None
    /\ last_id = None
    /\ steps = <<>>
    /\ step_start = 0
    /\ min_id = 0
    /\ reversed_and_min_tags = <<>>
    /\ left = 0
    /\ right = 0
    /\ last_full_page = 0
    /\ outcome = NoOutcome
    /\ runs = 0
    /\ calls = <<>>
    /\ input = NoInput
    /\ prev = NoPrev

\* GelbooruDeepSearch.__init__ on a valid BooruConfig, facing some result set
InitInstance(scenarios) ==
    /\ \E sc \in scenarios : booru_config = sc[1] /\ posts = sc[2]
    /\ args = NoArgs
    /\ request_counter = 0
    /\ request_time = 0
    /\ InitLocals

Init == InitInstance(Scenarios) /\ pc = "idle"

InitFinder == InitInstance(Scenarios \cup FinderScenarios) /\ pc = "idle"

\* main() after parser.parse_args()
InitMain ==
    /\ args \in ArgsSet
    /\ booru_config = NoConfig
    /\ posts = <<>>
    /\ request_counter = 0
    /\ request_time = 0
    /\ InitLocals
    /\ pc = "main"

(***************************************************************************)
(* Control: every action gives the program position and the locals.        *)
(***************************************************************************)
Ctl(pc_, caller_, tags_, first_, last_, steps_, start_, min_, query_, left_, right_, lfp_, out_) ==
    /\ pc' = pc_
    /\ caller' = caller_
    /\ tags' = tags_
    /\ first_id' = first_
    /\ last_id' = last_
    /\ steps' = steps_
    /\ step_start' = start_
    /\ min_id' = min_
    /\ reversed_and_min_tags' = query_
    /\ left' = left_
    /\ right' = right_
    /\ last_full_page' = lfp_
    /\ outcome' = out_

\* the call ends (a return or a raise): its frames are gone
Finish(out) ==
    Ctl("idle", "none", <<>>, None, None, <<>>, 0, 0, <<>>, 0, 0, 0, out)

\* _gelbooru_search_wrapped: one request and its statistics
Probe(query, limit, page) ==
    /\ request_counter' = request_counter + 1
    /\ request_time' = request_time + 1
    /\ calls' = Append(calls, Request(query, limit, page))

\* the loop test written with <=
LoopTest_inclusive(start, last) == start <= last
\* the `while step_start < last_id` test of line 224
LoopTest(start, last) == start < last

\* lines 224-233 from the loop test on, with the locals as given
Loop(t, first, last, s, start) ==
    IF LoopTest(start, last[1])
    THEN Ctl("linear_last_page", "steps", t, first, last, s, start,
             start, add_reverse_and_min_tag(t, start), 0, 0, 0, outcome)
    ELSE Finish(Outcome("returned", s, None, ""))

\* the Boundary Finder returns step_end (an Optional ID) to its caller
FinderReturns(step_end) ==
    IF caller = "direct"
    THEN Finish([Outcome("found", <<>>, step_end, "") EXCEPT !.min_id = min_id])
    ELSE IF ~Truthy(step_end)
         THEN Finish(Outcome("returned", Append(steps, <<step_start, last_id[1]>>), None, ""))
         ELSE Loop(tags, first_id, last_id,
                   Append(steps, <<step_start, step_end[1]>>), step_end[1])

\* posts[-1].id of a page; an empty page raises IndexError
FinderReturnsLastOf(page) ==
    IF page = <<>>
    THEN Finish(Outcome("IndexError", <<>>, None, "list index out of range"))
    ELSE FinderReturns(Some(page[Len(page)]))

(***************************************************************************)
(* get_deep_search_steps_async.                                            *)
(***************************************************************************)
\* a statistic carried over from the call before
ResetStat_kept(stat) == stat
\* lines 202-203: the statistics are cleared
ResetStat(stat) == 0

\* lines 192-213: the call up to its first request
Call(in) ==
    /\ pc = "idle"
    /\ runs < MaxRuns
    /\ runs' = runs + 1
    /\ input' = in
    /\ prev' = IF in = input
               THEN [outcome |-> outcome, request_counter |-> request_counter, input |-> input]
               ELSE NoPrev
    /\ calls' = <<>>
    /\ IF in.kind = "other"
       THEN /\ Finish(Outcome("ValueError", <<>>, None, "Tags must be a string or a list of strings"))
            /\ UNCHANGED <<request_counter, request_time>>
       ELSE /\ request_counter' = ResetStat(request_counter)
            /\ request_time' = ResetStat(request_time)
            /\ IF HasForbiddenTags(PrepareTags(in))
               THEN Finish(Outcome("ForbiddenTagsException", <<>>, None,
                                   "Tags must not contain sort:id:*"))
               ELSE Ctl("get_first_id", "none", PrepareTags(in), None, None, <<>>,
                        0, 0, <<>>, 0, 0, 0, outcome)
    /\ UNCHANGED <<args, booru_config, posts>>

\* line 213: _get_first_id_async answers
GetFirstId ==
    /\ pc = "get_first_id"
    /\ Probe(add_reverse_tag(tags), LastIdLimit, None)
    /\ Ctl("get_last_id", caller, tags, get_last_id(add_reverse_tag(tags)), last_id,
           steps, step_start, min_id, reversed_and_min_tags, left, right,
           last_full_page, outcome)
    /\ UNCHANGED <<args, booru_config, posts, runs, input, prev>>

\* lines 214-225: _get_last_id_async answers, the emptiness test, the loop entry
GetLastId ==
    /\ pc = "get_last_id"
    /\ Probe(tags, LastIdLimit, None)
    /\ LET last == get_last_id(tags)
       IN  IF ~Truthy(first_id) \/ ~Truthy(last)
           THEN Finish(Outcome("EmptySearchException", <<>>, None,
                               "Failed to find any post for search"))
           ELSE Loop(tags, first_id, last, <<>>, first_id[1])
    /\ UNCHANGED <<args, booru_config, posts, runs, input, prev>>

(***************************************************************************)
(* The Boundary Finder.                                                    *)
(***************************************************************************)
PageLimit == Some(booru_config.max_posts_per_page)
IsFull(page) == Len(page) = booru_config.max_posts_per_page
IsPartial(page) == 0 < Len(page) /\ Len(page) < booru_config.max_posts_per_page

\* the page index of the first probe of _find_last_id_linear_async
LastPageIndex == max_pages(booru_config)

\* lines 335-348: the page at index max_pages answers
LinearLastPage ==
    /\ pc = "linear_last_page"
    /\ Probe(reversed_and_min_tags, PageLimit, Some(LastPageIndex))
    /\ LET posts_last_page == Response(reversed_and_min_tags, PageLimit, Some(LastPageIndex))
       IN  IF IsFull(posts_last_page)
           THEN FinderReturnsLastOf(posts_last_page)
           ELSE Ctl("linear_first_page", caller, tags, first_id, last_id, steps,
                    step_start, min_id, reversed_and_min_tags, left, right,
                    last_full_page, outcome)
    /\ UNCHANGED <<args, booru_config, posts, runs, input, prev>>

\* a right end one page short
BinaryRight_short == max_pages(booru_config) - 2
\* line 374: the right end of the binary search
BinaryRight == max_pages(booru_config) - 1

\* the loop test of line 377: where the binary search goes next
BinaryNext(l, r, lfp) ==
    Ctl(IF l <= r THEN "binary_probe" ELSE "binary_fallback", caller, tags,
        first_id, last_id, steps, step_start, min_id, reversed_and_min_tags,
        l, r, lfp, outcome)

\* lines 346-377: page 0 answers
LinearFirstPage ==
    /\ pc = "linear_first_page"
    /\ Probe(reversed_and_min_tags, PageLimit, Some(0))
    /\ LET posts_first_page == Response(reversed_and_min_tags, PageLimit, Some(0))
       IN  IF IsPartial(posts_first_page)
           THEN FinderReturnsLastOf(posts_first_page)
           ELSE IF Len(posts_first_page) = 0
                THEN FinderReturns(None)
                ELSE BinaryNext(1, BinaryRight, 0)
    /\ UNCHANGED <<args, booru_config, posts, runs, input, prev>>

\* mid = (left + right) // 2
Mid(l, r) == (l + r) \div 2

\* left moved to mid only
LeftAfterFull_stuck(mid) == mid
\* line 392: left after page mid was full
LeftAfterFull(mid) == mid + 1

\* last_full_page left as it was
FullPageSeen_forgotten(mid, lfp) == lfp
\* line 391: last_full_page after page mid was full
FullPageSeen(mid, lfp) == mid

\* lines 378-395: page mid answers
BinaryProbe ==
    /\ pc = "binary_probe"
    /\ Probe(reversed_and_min_tags, PageLimit, Some(Mid(left, right)))
    /\ LET mid == Mid(left, right)
           page == Response(reversed_and_min_tags, PageLimit, Some(mid))
       IN  IF IsPartial(page)
           THEN FinderReturnsLastOf(page)
           ELSE IF IsFull(page)
                THEN BinaryNext(LeftAfterFull(mid), right, FullPageSeen(mid, last_full_page))
                ELSE BinaryNext(left, mid - 1, last_full_page)
    /\ UNCHANGED <<args, booru_config, posts, runs, input, prev>>

\* lines 399-403: page last_full_page answers again
BinaryFallback ==
    /\ pc = "binary_fallback"
    /\ Probe(reversed_and_min_tags, PageLimit, Some(last_full_page))
    /\ FinderReturnsLastOf(Response(reversed_and_min_tags, PageLimit, Some(last_full_page)))
    /\ UNCHANGED <<args, booru_config, posts, runs, input, prev>>

\* _find_last_id_linear_async(tags, min_id) called on its own, lines 323-335
CallFinder(in, m) ==
    /\ pc = "idle"
    /\ runs = 0
    /\ runs' = 1
    /\ input' = in
    /\ calls' = <<>>
    /\ Ctl("linear_last_page", "direct", PrepareTags(in), None, None, <<>>, 0,
           m, add_reverse_and_min_tag(PrepareTags(in), m), 0, 0, 0, outcome)
    /\ UNCHANGED <<args, booru_config, posts, request_counter, request_time, prev>>

(***************************************************************************)
(* main(): the command line's checks and the configuration.                *)
(***************************************************************************)
\* _check_user_key_both_or_none and _check_have_limits_on_custom_booru:
\* "ok" or the message parser.error exits with
CheckArgs(a) ==
    IF TruthyStr(a.user) /\ ~TruthyStr(a.key)
        THEN "When using --user you should also specify --key"
    ELSE IF ~TruthyStr(a.user) /\ TruthyStr(a.key)
        THEN "When using --key you should also specify --user"
    ELSE IF a.api.text \in KnownLabels THEN "ok"
    ELSE IF ~Truthy(a.max_per_search) /\ ~Truthy(a.max_per_page)
        THEN "When using custom booru API --max-per-search and --max-per-page should be specified"
    ELSE IF ~Truthy(a.max_per_search)
        THEN "When using custom booru API --max-per-search should be specified"
    ELSE IF ~Truthy(a.max_per_page)
        THEN "When using custom booru API --max-per-page should be specified"
    ELSE "ok"

\* the max_posts_per_page argument _get_booru_config passes (line 465)
PageArgument(a) == a.max_per_search

\* _get_booru_config: the constructor's verdict and the configuration
get_booru_config(a) ==
    IF a.api.text \in KnownLabels
    THEN [check |-> "ok", config |-> KNOWN_API(a.api.text)]
    ELSE LET check == BooruConfigCheck(a.api, a.max_per_search, PageArgument(a), a.key, a.user)
         IN  [check |-> check,
              config |-> IF check = "ok"
                         THEN BooruConfig(a.api, a.max_per_search, PageArgument(a), a.key, a.user)
                         ELSE NoConfig]

UnchangedRun ==
    UNCHANGED <<args, posts, caller, tags, first_id, last_id, steps, step_start, min_id,
                reversed_and_min_tags, left, right, last_full_page, request_counter,
                request_time, runs, calls, input, prev>>

\* lines 473-474
MainCheckArgs ==
    /\ pc = "main"
    /\ IF CheckArgs(args) = "ok"
       THEN pc' = "get_booru_config" /\ outcome' = outcome
       ELSE pc' = "exit" /\ outcome' = Outcome("parser.error", <<>>, None, CheckArgs(args))
    /\ booru_config' = booru_config
    /\ UnchangedRun

\* lines 478-479
MainGetBooruConfig ==
    /\ pc = "get_booru_config"
    /\ LET got == get_booru_config(args)
       IN  IF got.check = "ok"
           THEN pc' = "configured" /\ booru_config' = got.config /\ outcome' = outcome
           ELSE /\ pc' = "exit"
                /\ booru_config' = booru_config
                /\ outcome' = Outcome("ValueError", <<>>, None, got.check)
    /\ UnchangedRun

(***************************************************************************)
(* Specifications.                                                         *)
(***************************************************************************)
\* calls of get_deep_search_steps_async on one instance
Next ==
    \/ \E in \in TagInputs : Call(in)
    \/ GetFirstId
    \/ GetLastId
    \/ LinearLastPage
    \/ LinearFirstPage
    \/ BinaryProbe
    \/ BinaryFallback

Spec == Init /\ [][Next]_vars

\* the event loop resumes the coroutine when the awaited request is answered
Resume ==
    \/ GetFirstId
    \/ GetLastId
    \/ LinearLastPage
    \/ LinearFirstPage
    \/ BinaryProbe
    \/ BinaryFallback

\* the first call of get_deep_search_steps_async on an instance
FirstCall(in) == runs = 0 /\ Call(in)

NextLive ==
    \/ \E in \in TagInputs : FirstCall(in)
    \/ GetFirstId
    \/ GetLastId
    \/ LinearLastPage
    \/ LinearFirstPage
    \/ BinaryProbe
    \/ BinaryFallback

\* one call of get_deep_search_steps_async whose requests are all answered
SpecLive == Init /\ [][NextLive]_vars /\ WF_vars(Resume)

\* one call of the Boundary Finder with any min_id
NextFinder ==
    \/ \E m \in 0..MaxId : CallFinder(CHOOSE in \in TagInputs : in.value = <<S_CatDog>>, m)
    \/ LinearLastPage
    \/ LinearFirstPage
    \/ BinaryProbe
    \/ BinaryFallback

SpecFinder == InitFinder /\ [][NextFinder]_vars

\* main() from the parsed arguments to the configuration
NextMain == MainCheckArgs \/ MainGetBooruConfig

SpecMain == InitMain /\ [][NextMain]_vars

(***************************************************************************)
(* Properties.                                                             *)
(***************************************************************************)
\* a call of get_deep_search_steps_async has returned its window list
Returned == pc = "idle" /\ outcome.kind = "returned"

\* ID id lies in window i of the list s: [start, end] for the first window,
\* (start, end] for every later one
InWindow(s, i, id) ==
    /\ IF i = 1 THEN id >= s[i][1] ELSE id > s[i][1]
    /\ id <= s[i][2]

\* the number of matching posts window i of s selects
WindowCount(s, i) == Cardinality({k \in 1..Len(posts) : InWindow(s, i, posts[k])})

\* C1: every window of a returned list selects at most max_posts_per_search
\* matching posts.
C1_WindowsWithinCap ==
    Returned =>
        \A i \in 1..Len(outcome.steps) :
            WindowCount(outcome.steps, i) <= booru_config.max_posts_per_search

\* C2: when the result set is not empty, every matching ID lies in exactly
\* one window of the returned list.
C2_CoveringPartition ==
    (Returned /\ posts # <<>>) =>
        \A k \in 1..Len(posts) :
            Cardinality({i \in 1..Len(outcome.steps) :
                            InWindow(outcome.steps, i, posts[k])}) = 1

\* C3: when exactly one post matches, with ID k, the returned list is the
\* single window (k, k).
C3_SinglePostSingleWindow ==
    (Returned /\ Len(posts) = 1) => outcome.steps = << <<posts[1], posts[1]>> >>

\* the documented scenario: IDs 1..150, 100 per page, 200 per search
Scenario150 ==
    /\ booru_config.max_posts_per_page = 100
    /\ booru_config.max_posts_per_search = 200
    /\ posts = Range(1, 150)

\* C4 as stated: for IDs 1..150 under 100 per page and 200 per search the
\* returned list is the two windows (1, 100), (100, 150).
C4_TwoWindows ==
    (Returned /\ Scenario150) => outcome.steps = << <<1, 100>>, <<100, 150>> >>

\* C4 amended: for IDs 1..150 under 100 per page and 200 per search the
\* returned list is the single window (1, 150), found on page 1 by the
\* binary search after the probes of pages 2 and 0.
C4_OneWindow ==
    (Returned /\ Scenario150) =>
        /\ outcome.steps = << <<1, 150>> >>
        /\ [i \in 1..Len(calls) |-> calls[i].page] = <<0, 0, 2, 0, 1>>

C4_Witness == Returned /\ Scenario150 /\ request_counter = 5

\* the tags argument of the current call is a str or a list of str without
\* a reserved tag
ValidInput == input.kind \in {"str", "list"} /\ ~input.reserved

\* C5: whenever the Boundary Finder, called with any min_id, returns an ID,
\* the ID is greater than min_id.
C5_StrictlyMonotonic ==
    (pc = "idle" /\ outcome.kind = "found" /\ outcome.id # None) =>
        outcome.id[1] > outcome.min_id

\* the re-probe of last_full_page with max_pages = 1 (no binary iteration)
\* returned an ID
C5_Witness ==
    /\ pc = "idle" /\ outcome.kind = "found" /\ outcome.id # None
    /\ max_pages(booru_config) = 1
    /\ [i \in 1..Len(calls) |-> calls[i].page] = <<1, 0, 0>>

\* C6: a tags argument holding sort:id:asc or sort:id:desc, in any letter
\* case, ends the call with ForbiddenTagsException, with no request sent
\* and request_counter at 0.
C6_ForbiddenBeforeProbe ==
    input.reserved =>
        /\ pc = "idle"
        /\ outcome.kind = "ForbiddenTagsException"
        /\ request_counter = 0
        /\ calls = <<>>

\* a reserved tag in upper case inside a space-separated str, on the second
\* call of the instance
C6_Witness ==
    /\ input.reserved /\ input.kind = "str" /\ input.value = <<S_catSortAsc>>
    /\ runs = 2 /\ outcome.kind = "ForbiddenTagsException"

\* C7: against an empty result set the call never reaches the Boundary
\* Finder and ends with EmptySearchException, no window list, after exactly
\* two requests: limit 1, page 0, the first with sort:id:asc and the second
\* without.
C7_EmptySearch ==
    posts = <<>> =>
        /\ pc \in {"idle", "get_first_id", "get_last_id"}
        /\ outcome.kind # "returned"
        /\ (pc = "idle" /\ runs > 0 /\ ValidInput) =>
              /\ outcome.kind = "EmptySearchException"
              /\ Len(calls) = 2
              /\ \A i \in 1..2 : calls[i].limit = 1 /\ calls[i].page = 0
              /\ SortIdAsc \in Elems(calls[1].tags)
              /\ SortIdAsc \notin Elems(calls[2].tags)

C7_Witness ==
    /\ posts = <<>> /\ pc = "idle" /\ ValidInput
    /\ outcome.kind = "EmptySearchException" /\ request_counter = 2

\* C8: a call that follows a call with the same tags on the same instance,
\* against the same result set, ends the same way, with the same window
\* list, after the same number of requests.
C8_Idempotent ==
    (pc = "idle" /\ ValidInput /\ prev.input = input) =>
        /\ outcome = prev.outcome
        /\ request_counter = prev.request_counter
        /\ request_time = request_counter

\* the second of two calls returned at least two windows
C8_Witness ==
    /\ pc = "idle" /\ ValidInput /\ prev.input = input
    /\ outcome.kind = "returned" /\ Len(outcome.steps) >= 2

\* the command line names an API outside KNOWN_API and gives both limits,
\* the page size above the search cap
PageAboveSearch ==
    /\ args.api.text \notin KnownLabels
    /\ Truthy(args.max_per_search)
    /\ Truthy(args.max_per_page)
    /\ args.max_per_page[1] > args.max_per_search[1]

\* C9: with an API outside KNOWN_API and a page size above the search cap,
\* main never gets a configuration: no BooruConfig is produced.
C9_PageAboveSearchFails ==
    PageAboveSearch => (pc # "configured" /\ booru_config = NoConfig)

\* the matching IDs above min_id, for the Boundary Finder's last call
Above(m) == SelectSeq(posts, LAMBDA id : id > m)

\* C10: when the number N of matching IDs above min_id is at least
\* max_posts_per_page and at most max_pages * max_posts_per_page, the
\* Boundary Finder returns the highest matching ID, and its last request is
\* for the page that holds it: the partial page, or the last full page when
\* N is a multiple of the page size.
C10_ExactBoundary ==
    (pc = "idle" /\ outcome.kind \notin {"none"}) =>
        LET N == Len(Above(outcome.min_id))
            L == booru_config.max_posts_per_page
        IN  (L <= N /\ N <= max_pages(booru_config) * L) =>
                /\ outcome.kind = "found"
                /\ outcome.id = Some(posts[Len(posts)])
                /\ calls[Len(calls)].page = (N - 1) \div L

\* the documented instance: IDs 1..20000 under the gelbooru preset, all of
\* them above min_id, boundary 20000 from the re-probe of page 199
C10_Witness ==
    /\ pc = "idle" /\ outcome.kind = "found" /\ outcome.min_id = 0
    /\ posts = Range(1, 20000)
    /\ booru_config = KNOWN_API("gelbooru")
    /\ outcome.id = Some(20000)
    /\ calls[Len(calls)].page = 199

\* C11: when the binary search ends without a partial page, the Boundary
\* Finder asks for page last_full_page again and returns the last ID of that
\* page, which is full, and fewer than max_posts_per_page matching IDs lie
\* above the returned ID.
C11_FallbackOnePageShort ==
    [][(pc = "binary_fallback" /\ pc' = "idle") =>
          LET L == booru_config.max_posts_per_page
              above == Above(min_id)
          IN  /\ calls'[Len(calls')].page = last_full_page
              /\ Len(above) >= (last_full_page + 1) * L
              /\ outcome'.kind = "found"
              /\ outcome'.id = Some(above[(last_full_page + 1) * L])
              /\ Len(Above(outcome'.id[1])) < L]_vars

\* the re-probe, after at least one iteration of the binary search, returned
\* an ID with matching IDs left above it
C11_Witness ==
    /\ pc = "idle" /\ outcome.kind = "found" /\ outcome.id # None
    /\ Len(calls) >= 4
    /\ Len(Above(outcome.id[1])) > 0

\* the program positions inside the Boundary Finder
FinderPcs == {"linear_last_page", "linear_first_page", "binary_probe", "binary_fallback"}

\* every iteration of the binary search that goes on shrinks right - left
BinaryShrinks ==
    [][(pc = "binary_probe" /\ pc' \in {"binary_probe", "binary_fallback"}) =>
          right' - left' < right - left]_vars

\* every iteration of the partition loop that goes on moves step_start up,
\* never past last_id
StartGrows ==
    [][(caller = "steps" /\ pc \in FinderPcs /\ pc' = "linear_last_page") =>
          (step_start' > step_start /\ step_start' <= last_id[1])]_vars

\* the last window of a returned list ends at the highest matching ID
EndsAtLastId ==
    [](( Returned /\ outcome.steps # <<>>) =>
          outcome.steps[Len(outcome.steps)][2] = posts[Len(posts)])

\* a call under way ends, by a return or a raise
CallEnds == (pc # "idle") ~> (pc = "idle")

\* C12: every call of get_deep_search_steps_async ends: the binary search
\* shrinks right - left at every iteration, the partition loop moves
\* step_start up at every iteration until it reaches last_id, and a call
\* under way eventually returns or raises.
C12_Terminates == BinaryShrinks /\ StartGrows /\ EndsAtLastId /\ CallEnds

\* a call returned after the partition loop ran at least twice and the
\* binary search at least one iteration
C12_Witness ==
    /\ Returned /\ Len(outcome.steps) >= 2
    /\ \E i \in 1..(Len(calls) - 2) :
          /\ calls[i].page = max_pages(booru_config)
          /\ calls[i + 1].page = 0
          /\ calls[i + 2].page = 1
          /\ calls[i + 2].tags = calls[i].tags

====
